---- MODULE Spec2Model ----
(***************************************************************************)
(* Order-book replication engine of crypto_order_book: the engine thread   *)
(* (OrderBook.run), the mutation application (OrderBook.update), the       *)
(* Bitfinex and Poloniex frame decoders and the query surface              *)
(* (verify_status, get_top_asks, get_top_bids, get_middle,                 *)
(* get_ask_rate_amount, get_bid_rate_amount).                              *)
(*                                                                         *)
(* Prices and sizes are floats in the program; here they are integers.     *)
(* Wire prices are the even numbers 2, 4, ... so that a caller can ask for  *)
(* a rate below, between and above the stored levels and so that the mean  *)
(* of two prices is again an integer.                                      *)
(***************************************************************************)
EXTENDS Integers, Sequences, FiniteSets, TLC

\* ------------------------------------------------------------------ bounds
MaxPrice == 2
MaxBatch == 2
MaxTime == 1
MaxSeq == 3
MaxFail == 2

\* ------------------------------------------------------- program constants
MaxAmount == 5000
MaxTries == 2000

\* Python's None where a number is expected (a sequence number, a socket handle)
None == -1
\* "return False" of get_index
NotFound == -1
\* no exception has left the call
NoError == "ok"

K1 == <<"eth", "btc">>
K2 == <<"xmr", "btc">>

Prices == {2 * i : i \in 1..MaxPrice}
Sizes == {1, 2}

Min(a, b) == IF a < b THEN a ELSE b
Abs(x) == IF x < 0 THEN -x ELSE x

\* str.lower() / str.upper() on the currency codes that occur
Lower(s) ==
    CASE s = "ETH" -> "eth"
      [] s = "BTC" -> "btc"
      [] s = "XMR" -> "xmr"
      [] OTHER -> s

\* ------------------------------------------------------------ sorted ladder
\* key of SortedListWithKey: val[0] for asks, -val[0] for bids
SortKey(entry, reverse_sort) == IF reverse_sort THEN -entry[1] ELSE entry[1]

\* SortedListWithKey.add: insert after the entries whose key is <= the new key
SortedAdd(search_list, entry, reverse_sort) ==
    LET n == Cardinality({i \in 1..Len(search_list) :
                 SortKey(search_list[i], reverse_sort) <= SortKey(entry, reverse_sort)})
    IN SubSeq(search_list, 1, n) \o <<entry>> \o SubSeq(search_list, n + 1, Len(search_list))

\* SortedListWithKey.__setitem__ (sortedcontainers 1.x): replace in place
SortedSet(search_list, index, entry) == [search_list EXCEPT ![index + 1] = entry]

\* SortedListWithKey.__delitem__
SortedDel(search_list, index) ==
    SubSeq(search_list, 1, index) \o SubSeq(search_list, index + 2, Len(search_list))

\* binary_search.get_index: the while loop, indexes are 0-based as in the source
RECURSIVE get_index_loop(_, _, _, _, _)
get_index_loop(find_rate, search_list, reverse_sort, index_left, index_right) ==
    IF index_left > index_right THEN NotFound
    ELSE LET index_middle == (index_left + index_right) \div 2
             value == search_list[index_middle + 1][1]
         IN IF value = find_rate THEN index_middle
            ELSE IF reverse_sort
                 THEN IF find_rate > value
                      THEN get_index_loop(find_rate, search_list, reverse_sort,
                                          index_left, index_middle - 1)
                      ELSE get_index_loop(find_rate, search_list, reverse_sort,
                                          index_middle + 1, index_right)
                 ELSE IF find_rate < value
                      THEN get_index_loop(find_rate, search_list, reverse_sort,
                                          index_left, index_middle - 1)
                      ELSE get_index_loop(find_rate, search_list, reverse_sort,
                                          index_middle + 1, index_right)

\* get_index that searches every ladder as an ascending one
get_index_ascending(find_rate, search_list, reverse_sort) ==
    get_index_loop(find_rate, search_list, FALSE, 0, Len(search_list) - 1)

get_index(find_rate, search_list, reverse_sort) ==
    get_index_loop(find_rate, search_list, reverse_sort, 0, Len(search_list) - 1)

\* ------------------------------------------------------- mutation application
\* a mutation as the adapters build it: [type, base, quote, rate, amount]
Heartbeat == [type |-> "heartbeat"]
Mutation(type, market, rate, amount) ==
    [type |-> type, market |-> market, rate |-> rate, amount |-> amount]

EmptyMarket ==
    [order_book_ask |-> <<>>, order_book_bid |-> <<>>,
     last_sequence |-> None, status |-> "inactive"]

\* an update that adds an entry whether or not the rate is found
UpsertAdds(book, index, reverse_sort, rate, amount) ==
    SortedAdd(book, <<rate, amount>>, reverse_sort)

\* the branch of OrderBook.update for update_ask / update_bid
Upsert(book, index, reverse_sort, rate, amount) ==
    IF index = NotFound
    THEN SortedAdd(book, <<rate, amount>>, reverse_sort)
    ELSE SortedSet(book, index, <<rate, amount>>)

\* an update that also empties the ladder of the other side
UpdateLevelClears(market_state, field, reverse_sort, rate, amount, last_update) ==
    [market_state EXCEPT
        ![field] = Upsert(@, get_index(rate, @, reverse_sort), reverse_sort, rate, amount),
        ![IF field = "order_book_ask" THEN "order_book_bid" ELSE "order_book_ask"] = <<>>,
        !.status = IF last_update /\ @ # "active" THEN "active" ELSE @]

UpdateLevel(market_state, field, reverse_sort, rate, amount, last_update) ==
    [market_state EXCEPT
        ![field] = Upsert(@, get_index(rate, @, reverse_sort), reverse_sort, rate, amount),
        !.status = IF last_update /\ @ # "active" THEN "active" ELSE @]

\* a remove that deletes the best level, whatever the rate
RemoveFirstLevel(market_state, field, reverse_sort, rate) ==
    [market_state EXCEPT ![field] = SortedDel(@, 0)]

\* the branch of OrderBook.update for remove_ask / remove_bid
RemoveLevel(market_state, field, reverse_sort, rate) ==
    [market_state EXCEPT ![field] = SortedDel(@, get_index(rate, @, reverse_sort))]

RemoveMisses(market_state, field, reverse_sort, rate) ==
    get_index(rate, market_state[field], reverse_sort) = NotFound

\* OrderBook.update on the engine state st = [data_store, restart, raised];
\* raised is the name of an exception that leaves the method, or NoError
update(st, update_content, last_update, soft) ==
    IF update_content.type = "heartbeat" THEN st
    ELSE IF update_content.market \notin DOMAIN st.data_store
    THEN [st EXCEPT !.raised = "KeyError"]
    ELSE
    LET market == update_content.market
        ms == st.data_store[market]
    IN CASE update_content.type = "update_ask" ->
              [st EXCEPT !.data_store[market] =
                  UpdateLevel(ms, "order_book_ask", FALSE, update_content.rate,
                              update_content.amount, last_update)]
         [] update_content.type = "update_bid" ->
              [st EXCEPT !.data_store[market] =
                  UpdateLevel(ms, "order_book_bid", TRUE, update_content.rate,
                              update_content.amount, last_update)]
         [] update_content.type = "remove_ask" ->
              IF RemoveMisses(ms, "order_book_ask", FALSE, update_content.rate)
              THEN [st EXCEPT !.restart = IF soft THEN st.restart ELSE TRUE]
              ELSE [st EXCEPT !.data_store[market] =
                       RemoveLevel(ms, "order_book_ask", FALSE, update_content.rate)]
         [] update_content.type = "remove_bid" ->
              IF RemoveMisses(ms, "order_book_bid", TRUE, update_content.rate)
              THEN [st EXCEPT !.restart = IF soft THEN st.restart ELSE TRUE]
              ELSE [st EXCEPT !.data_store[market] =
                       RemoveLevel(ms, "order_book_bid", TRUE, update_content.rate)]
         [] OTHER -> st

\* run(): "for item in updates[:-1]: self.update(item)" then
\* "self.update(updates[-1], True)"; an exception ends the loop
RECURSIVE ProcessUpdates(_, _, _, _)
ProcessUpdates(st, updates, i, soft) ==
    IF i > Len(updates) \/ st.raised # NoError THEN st
    ELSE ProcessUpdates(update(st, updates[i], i = Len(updates), soft), updates, i + 1, soft)

SeqsUpTo(S, n) == UNION {[1..k -> S] : k \in 0..n}

\* ------------------------------------------------------------ Bitfinex adapter
ChanIds == {17}
WirePairs == {"ETHBTC"}
Counts == {0, 1}
Amounts == {-2, -1, 1, 2}
Triples == Prices \X Counts \X Amounts

\* pair[0:3] and pair[3:6]
PairBase(pair) == CASE pair = "ETHBTC" -> "ETH" [] pair = "XMRBTC" -> "XMR" [] OTHER -> pair
PairQuote(pair) == CASE pair = "ETHBTC" -> "BTC" [] pair = "XMRBTC" -> "BTC" [] OTHER -> pair

BitfinexFrames ==
    {[kind |-> "transport_error"], [kind |-> "empty"], [kind |-> "info"]}
    \cup {[kind |-> "subscribed", pair |-> p, chanId |-> c] : p \in WirePairs, c \in ChanIds}
    \cup {[kind |-> "hb", chanId |-> c] : c \in ChanIds}
    \cup {[kind |-> "snapshot", chanId |-> c, items |-> its] :
              c \in ChanIds, its \in SeqsUpTo(Triples, MaxBatch)}
    \cup {[kind |-> "delta", chanId |-> c, item |-> t] : c \in ChanIds, t \in Triples}

\* process_single_update with the two sides of a delete exchanged
process_single_update_swapped(market, upd) ==
    LET rate == upd[1]
        count == upd[2]
        amount == upd[3]
    IN IF count = 0
       THEN IF amount = 1 THEN Mutation("remove_ask", market, rate, 0)
            ELSE IF amount = -1 THEN Mutation("remove_bid", market, rate, 0)
            ELSE [type |-> "OrderBookError"]
       ELSE IF amount > 0 THEN Mutation("update_bid", market, rate, amount)
            ELSE Mutation("update_ask", market, rate, Abs(amount))

\* BitfinexOrderBook.process_single_update: a mutation, or the raised OrderBookError
process_single_update(market, upd) ==
    LET rate == upd[1]
        count == upd[2]
        amount == upd[3]
    IN IF count = 0
       THEN IF amount = 1 THEN Mutation("remove_bid", market, rate, 0)
            ELSE IF amount = -1 THEN Mutation("remove_ask", market, rate, 0)
            ELSE [type |-> "OrderBookError"]
       ELSE IF amount > 0 THEN Mutation("update_bid", market, rate, amount)
            ELSE Mutation("update_ask", market, rate, Abs(amount))

\* what receive() hands back: the exception that left it (or NoError), the list
\* of mutations, and the adapter and engine fields it has written
Received(raised, updates, table, store, rs) ==
    [raised |-> raised, updates |-> updates, table |-> table,
     data_store |-> store, restart |-> rs]

\* BitfinexOrderBook.process_subscription
process_subscription(frame, table, store, rs) ==
    IF frame.chanId \in DOMAIN table
    THEN Received("OrderBookError", <<>>, table, store, rs)
    ELSE LET market == <<Lower(PairBase(frame.pair)), Lower(PairQuote(frame.pair))>>
         IN Received(NoError, <<>>,
                     [c \in DOMAIN table \cup {frame.chanId} |->
                         IF c = frame.chanId THEN market ELSE table[c]],
                     store, rs)

\* the end of BitfinexOrderBook.process_update: the list it returns, unless
\* process_single_update has raised
update_messages(msgs, table, store, rs) ==
    IF \E i \in 1..Len(msgs) : msgs[i].type = "OrderBookError"
    THEN Received("OrderBookError", <<>>, table, store, rs)
    ELSE Received(NoError, msgs, table, store, rs)

\* BitfinexOrderBook.process_update
bitfinex_process_update(frame, table, store, rs) ==
    IF frame.chanId \notin DOMAIN table
    THEN Received("KeyError", <<>>, table, store, rs)
    ELSE IF frame.kind = "hb"
    THEN Received(NoError, <<Heartbeat>>, table, store, rs)
    ELSE LET market == table[frame.chanId]
             items == CASE frame.kind = "snapshot" -> frame.items
                        [] frame.kind = "delta" -> <<frame.item>>
                        [] OTHER -> <<>>
         IN update_messages(
                [i \in 1..Len(items) |-> process_single_update(market, items[i])],
                table, store, rs)

\* BitfinexOrderBook.receive
bitfinex_receive(frame, table, store, rs) ==
    CASE frame.kind = "transport_error" -> Received("OrderBookError", <<>>, table, store, rs)
      [] frame.kind = "empty" -> Received(NoError, <<>>, table, store, rs)
      [] frame.kind = "info" -> Received(NoError, <<>>, table, store, rs)
      [] frame.kind = "subscribed" -> process_subscription(frame, table, store, rs)
      [] OTHER -> bitfinex_process_update(frame, table, store, rs)

\* ------------------------------------------------------------ Poloniex adapter
MarketIds == {148}
CurrencyPairs == {"BTC_ETH"}
SeqNums == 1..MaxSeq

\* a JSON string holding a decimal number, and float() of it
NumStr(n) == [str |-> n]
float(s) == s.str

\* currencyPair.split('_')
SplitPair(cp) ==
    CASE cp = "BTC_ETH" -> <<"BTC", "ETH">>
      [] cp = "BTC_XMR" -> <<"BTC", "XMR">>
      [] OTHER -> <<cp>>

BookEntries == {<<NumStr(p), NumStr(a)>> : p \in Prices, a \in Sizes}
\* one side of orderBook: a JSON object, so its keys are distinct
BookSides ==
    {d \in SeqsUpTo(BookEntries, MaxBatch) :
        \A i, j \in 1..Len(d) : i # j => d[i][1] # d[j][1]}
InitItems ==
    {[tag |-> "i", currencyPair |-> cp, asks |-> a, bids |-> b] :
        cp \in CurrencyPairs,
        a \in BookSides, b \in {d \in BookSides : Len(d) <= 1}}
OrderItems ==
    {[tag |-> "o", side |-> sd, rate |-> NumStr(p), amount |-> NumStr(a)] :
        sd \in {0, 1}, p \in Prices, a \in Sizes \cup {0}}

PoloniexFrames ==
    {[kind |-> "transport_error"], [kind |-> "empty"], [kind |-> "hb"], [kind |-> "other"]}
    \cup {[kind |-> "msg", market_id |-> m, sequence |-> n, updates |-> <<it>>] :
              m \in MarketIds, n \in SeqNums, it \in InitItems}
    \cup {[kind |-> "msg", market_id |-> m, sequence |-> n, updates |-> us] :
              m \in MarketIds, n \in SeqNums, us \in SeqsUpTo(OrderItems, MaxBatch)}

\* PoloniexOrderBook.process_initialisation: the mutations of one 'i' item
process_initialisation(market, item) ==
    [i \in 1..Len(item.asks) |->
        Mutation("update_ask", market, float(item.asks[i][1]), float(item.asks[i][2]))]
    \o [i \in 1..Len(item.bids) |->
        Mutation("update_bid", market, float(item.bids[i][1]), float(item.bids[i][2]))]

\* process_update that takes side 1 for the asks and side 0 for the bids
poloniex_process_update_swapped(market, item) ==
    LET update_type == item.side
        update_rate == float(item.rate)
        update_amount == float(item.amount)
    IN IF update_type = 1
       THEN IF update_amount = 0
            THEN Mutation("remove_ask", market, update_rate, 0)
            ELSE Mutation("update_ask", market, update_rate, update_amount)
       ELSE IF update_type = 0
       THEN IF update_amount = 0
            THEN Mutation("remove_bid", market, update_rate, 0)
            ELSE Mutation("update_bid", market, update_rate, update_amount)
       ELSE [type |-> "OrderBookError"]

\* PoloniexOrderBook.process_update: a mutation, or the raised OrderBookError
poloniex_process_update(market, item) ==
    LET update_type == item.side
        update_rate == float(item.rate)
        update_amount == float(item.amount)
    IN IF update_type = 0
       THEN IF update_amount = 0
            THEN Mutation("remove_ask", market, update_rate, 0)
            ELSE Mutation("update_ask", market, update_rate, update_amount)
       ELSE IF update_type = 1
       THEN IF update_amount = 0
            THEN Mutation("remove_bid", market, update_rate, 0)
            ELSE Mutation("update_bid", market, update_rate, update_amount)
       ELSE [type |-> "OrderBookError"]

\* message_list.append(self.process_update(...)), unless process_update raises
Appended(acc, m) ==
    IF m.type = "OrderBookError"
    THEN [acc EXCEPT !.raised = "OrderBookError"]
    ELSE [acc EXCEPT !.msgs = @ \o <<m>>]

\* the loop "for update in decoded_message[2]" of PoloniexOrderBook.receive;
\* acc = [raised, table, msgs]
RECURSIVE poloniex_items(_, _, _, _)
poloniex_items(market_id, updates, i, acc) ==
    IF i > Len(updates) \/ acc.raised # NoError THEN acc
    ELSE LET item == updates[i]
         IN IF item.tag = "i"
            THEN IF market_id \in DOMAIN acc.table
                 THEN [acc EXCEPT !.raised = "OrderBookError"]
                 ELSE LET cp == SplitPair(item.currencyPair)
                      IN IF Len(cp) # 2
                         THEN [acc EXCEPT !.raised = "OrderBookError"]
                         ELSE LET market == <<Lower(cp[2]), Lower(cp[1])>>
                                  table2 == [m \in DOMAIN acc.table \cup {market_id} |->
                                                IF m = market_id THEN market ELSE acc.table[m]]
                              IN poloniex_items(market_id, updates, i + 1,
                                     [raised |-> NoError, table |-> table2,
                                      msgs |-> acc.msgs \o process_initialisation(market, item)])
            ELSE IF item.tag = "o"
            THEN IF market_id \notin DOMAIN acc.table
                 THEN [acc EXCEPT !.raised = "OrderBookError"]
                 ELSE poloniex_items(market_id, updates, i + 1,
                          Appended(acc, poloniex_process_update(acc.table[market_id], item)))
            ELSE poloniex_items(market_id, updates, i + 1, acc)

\* verify_sequence that stores the number and never asks for a restart
verify_sequence_silent(sequence_number, market, store, rs) ==
    [data_store |-> [store EXCEPT ![market].last_sequence = sequence_number],
     restart |-> rs]

\* verify_sequence that takes every larger number
verify_sequence_forward(sequence_number, market, store, rs) ==
    [data_store |-> [store EXCEPT ![market].last_sequence = sequence_number],
     restart |-> rs \/ (store[market].last_sequence # None
                          /\ sequence_number <= store[market].last_sequence)]

\* PoloniexOrderBook.verify_sequence: [data_store, restart] afterwards
verify_sequence(sequence_number, market, store, rs) ==
    LET last == store[market].last_sequence
    IN [data_store |-> [store EXCEPT ![market].last_sequence = sequence_number],
        restart |-> IF last # sequence_number - 1 /\ last # None THEN TRUE ELSE rs]

\* the lines of PoloniexOrderBook.receive after the loop over the updates:
\* translate_market_id_to_market and verify_sequence
Verified(acc, v) == Received(NoError, acc.msgs, acc.table, v.data_store, v.restart)
after_items(frame, acc, store, rs) ==
    IF acc.raised # NoError
    THEN Received(acc.raised, <<>>, acc.table, store, rs)
    ELSE IF frame.market_id \notin DOMAIN acc.table
    THEN Received("OrderBookError", <<>>, acc.table, store, rs)
    ELSE IF acc.table[frame.market_id] \notin DOMAIN store
    THEN Received("KeyError", <<>>, acc.table, store, rs)
    ELSE Verified(acc, verify_sequence(frame.sequence, acc.table[frame.market_id], store, rs))

\* PoloniexOrderBook.receive
poloniex_receive(frame, table, store, rs) ==
    CASE frame.kind = "transport_error" -> Received("OrderBookError", <<>>, table, store, rs)
      [] frame.kind = "empty" -> Received(NoError, <<>>, table, store, rs)
      [] frame.kind = "hb" -> Received(NoError, <<Heartbeat>>, table, store, rs)
      [] frame.kind = "msg" ->
            after_items(frame,
                        poloniex_items(frame.market_id, frame.updates, 1,
                                       [raised |-> NoError, table |-> table, msgs |-> <<>>]),
                        store, rs)
      [] OTHER -> Received(NoError, <<>>, table, store, rs)

\* --------------------------------------------------------------- query surface
LowerKey(key) == <<Lower(key[1]), Lower(key[2])>>

\* Python's "a <= b" on two lists [rate, amount]
ListLessEqual(a, b) == a[1] < b[1] \/ (a[1] = b[1] /\ a[2] <= b[2])

\* the sixth check with "<" for "<="
InconsistentStrict(best_ask, best_bid) ==
    best_ask[1] < best_bid[1] \/ (best_ask[1] = best_bid[1] /\ best_ask[2] < best_bid[2])

\* the comparison of the sixth check of verify_status
Inconsistent(best_ask, best_bid) == ListLessEqual(best_ask, best_bid)

Verdict(raised, msg, rs) == [raised |-> raised, msg |-> msg, restart |-> rs]

\* verify_status with the restart test ahead of the market test
verify_status_restart_first(key, last_heartbeat_interval, store, rs, heartbeat, clock) ==
    IF DOMAIN store = {}
    THEN Verdict("OrderBookOutOfSync", "initialising", rs)
    ELSE IF rs
    THEN Verdict("OrderBookOutOfSync", "restart initialised", rs)
    ELSE IF key \notin DOMAIN store
    THEN Verdict("OrderBookError", "unknown pair", rs)
    ELSE IF store[key].status # "active"
    THEN Verdict("OrderBookOutOfSync", "not active", rs)
    ELSE IF clock > heartbeat + last_heartbeat_interval
    THEN Verdict("OrderBookOutOfSync", "stale", rs)
    ELSE LET ms == store[LowerKey(key)]
         IN IF /\ Len(ms.order_book_ask) > 0
               /\ Len(ms.order_book_bid) > 0
               /\ Inconsistent(ms.order_book_ask[1], ms.order_book_bid[1])
            THEN Verdict("OrderBookOutOfSync", "inconsistent", TRUE)
            ELSE Verdict(NoError, "", rs)

\* OrderBook.verify_status: the exception it raises (or NoError) and the value
\* of the restart flag afterwards
verify_status(key, last_heartbeat_interval, store, rs, heartbeat, clock) ==
    IF DOMAIN store = {}
    THEN Verdict("OrderBookOutOfSync", "initialising", rs)
    ELSE IF key \notin DOMAIN store
    THEN Verdict("OrderBookError", "unknown pair", rs)
    ELSE IF rs
    THEN Verdict("OrderBookOutOfSync", "restart initialised", rs)
    ELSE IF store[key].status # "active"
    THEN Verdict("OrderBookOutOfSync", "not active", rs)
    ELSE IF clock > heartbeat + last_heartbeat_interval
    THEN Verdict("OrderBookOutOfSync", "stale", rs)
    ELSE IF LowerKey(key) \notin DOMAIN store
    THEN Verdict("KeyError", "", rs)
    ELSE LET ms == store[LowerKey(key)]
         IN IF /\ Len(ms.order_book_ask) > 0
               /\ Len(ms.order_book_bid) > 0
               /\ Inconsistent(ms.order_book_ask[1], ms.order_book_bid[1])
            THEN Verdict("OrderBookOutOfSync", "inconsistent", TRUE)
            ELSE Verdict(NoError, "", rs)

\* what a query call ends in: kind is "value" (value holds what is returned),
\* "None" (the method falls off its end) or the name of the exception raised
Outcome(kind, msg, value, rs) == [kind |-> kind, msg |-> msg, value |-> value, restart |-> rs]
Failed(v) == Outcome(v.raised, v.msg, <<>>, v.restart)

\* the slice [:amount - 1]
get_top_short(field, key, amount, store, rs) ==
    IF amount < 1 \/ amount > MaxAmount
    THEN Outcome("OrderBookError", "invalid amount", <<>>, rs)
    ELSE Outcome("value", "",
                 SubSeq(store[LowerKey(key)][field], 1,
                        Min(amount - 1, Len(store[LowerKey(key)][field]))), rs)

\* OrderBook.get_top_asks / get_top_bids after verify_status has passed
get_top(field, key, amount, store, rs) ==
    IF amount < 1 \/ amount > MaxAmount
    THEN Outcome("OrderBookError", "invalid amount", <<>>, rs)
    ELSE LET book == store[LowerKey(key)][field]
         IN Outcome("value", "", SubSeq(book, 1, Min(amount, Len(book))), rs)

\* the while loop of get_ask_rate_amount (reverse_sort FALSE) and of
\* get_bid_rate_amount (reverse_sort TRUE); index is 0-based
RECURSIVE rate_amount_loop(_, _, _, _, _)
rate_amount_loop(book, rate, reverse_sort, index, rs) ==
    IF index >= Len(book) THEN Outcome("None", "", <<>>, rs)
    ELSE LET entry == book[index + 1]
         IN IF entry[1] = rate THEN Outcome("value", "", <<entry[2]>>, rs)
            ELSE IF (~reverse_sort /\ entry[1] > rate) \/ (reverse_sort /\ entry[1] < rate)
            THEN Outcome("value", "", <<0>>, rs)
            ELSE rate_amount_loop(book, rate, reverse_sort, index + 1, rs)

\* OrderBook.get_ask_rate_amount / get_bid_rate_amount after verify_status
get_rate_amount(field, reverse_sort, key, rate, store, rs) ==
    IF rate < 0
    THEN Outcome("OrderBookError", "invalid rate", <<>>, rs)
    ELSE rate_amount_loop(store[LowerKey(key)][field], rate, reverse_sort, 0, rs)

\* "[0][0]" on the two lists and the mean of get_middle
Middle(bids, asks, rs) ==
    IF Len(bids) = 0 \/ Len(asks) = 0
    THEN Outcome("IndexError", "", <<>>, rs)
    ELSE Outcome("value", "", <<(bids[1][1] + asks[1][1]) \div 2>>, rs)

\* OrderBook.get_middle after verify_status: get_top_bids(..., 1)[0][0] and
\* get_top_asks(..., 1)[0][0]
get_middle(key, store, rs) ==
    Middle(get_top("order_book_bid", key, 1, store, rs).value,
           get_top("order_book_ask", key, 1, store, rs).value, rs)

\* one call of the query surface
AfterVerify(q, v, store) ==
    IF v.raised # NoError THEN Failed(v)
       ELSE CASE q.op = "get_top_asks" -> get_top("order_book_ask", q.key, q.arg, store, v.restart)
              [] q.op = "get_top_bids" -> get_top("order_book_bid", q.key, q.arg, store, v.restart)
              [] q.op = "get_middle" -> get_middle(q.key, store, v.restart)
              [] q.op = "get_ask_rate_amount" ->
                    get_rate_amount("order_book_ask", FALSE, q.key, q.arg, store, v.restart)
              [] q.op = "get_bid_rate_amount" ->
                    get_rate_amount("order_book_bid", TRUE, q.key, q.arg, store, v.restart)
QueryOutcome(q, store, rs, heartbeat, clock) ==
    AfterVerify(q, verify_status(q.key, q.window, store, rs, heartbeat, clock), store)

\* the caller's inputs
Windows == {0}
QueryAmounts == (0..(MaxPrice + 1)) \cup {MaxAmount, MaxAmount + 1}
QueryRates == {-1} \cup (1..(2 * MaxPrice + 1))
Query(op, key, arg, window) == [op |-> op, key |-> key, arg |-> arg, window |-> window]
Queries ==
    {Query(op, K1, n, w) : op \in {"get_top_asks", "get_top_bids"}, n \in QueryAmounts,
                           w \in Windows}
    \cup {Query("get_middle", K1, 0, w) : w \in Windows}
    \cup {Query(op, K1, r, w) : op \in {"get_ask_rate_amount", "get_bid_rate_amount"},
                                r \in QueryRates, w \in Windows}
    \cup {Query(op, K2, 1, w) : op \in {"get_top_asks", "get_top_bids", "get_middle",
                                        "get_ask_rate_amount", "get_bid_rate_amount"},
                                w \in Windows}

\* ---------------------------------------------------------------------- state
VARIABLES
    adapter,                 \* "bitfinex" or "poloniex": the class of the engine
    markets,                 \* self.markets: the configured market keys, in order
    soft_delete_fail,        \* self.soft_delete_fail
    data_store,              \* self.data_store: market key -> market state
    socket_handle,           \* self.socket_handle (None or a handle)
    restart,                 \* self.restart
    running,                 \* self.running
    last_heartbeat,          \* self.last_heartbeat
    now,                     \* datetime.datetime.now()
    channel_id_to_market,    \* BitfinexOrderBook.channel_id_to_market
    market_id_to_market,     \* PoloniexOrderBook.market_id_to_market
    pc,                      \* where the engine thread is in run()
    idx,                     \* position of the for loop the engine thread is in
    connection_tries,        \* local of run()
    connection_delay,        \* local of run()
    qres,                    \* the query call the caller has just made and its outcome
    gapped,                  \* markets that took a frame with sequence n + 2 after n
                             \* and have not become active since
    stream,                  \* the peer's side of the connection: how far it is in
                             \* the stream it sends on this connection
    pending,                 \* local "updates" of run(): the mutations of the
                             \* received frame that are not applied yet
    done,                    \* the mutations of that frame that are applied
    waiter,                  \* where a caller of complete_initialisation() is
    wire                     \* the frame that recv() has returned last on this
                             \* connection, where the specification keeps it

engine_vars == <<data_store, socket_handle, restart, running, last_heartbeat,
                 channel_id_to_market, market_id_to_market, pc, idx,
                 connection_tries, connection_delay>>
config_vars == <<adapter, markets, soft_delete_fail>>
step_vars == <<stream, pending, done, wire>>
vars == <<config_vars, engine_vars, now, qres, gapped, step_vars, waiter>>

EmptyTable == [c \in {} |-> K1]
EmptyStore == [k \in {} |-> EmptyMarket]
NoQuery ==
    [op |-> "none", key |-> K1, arg |-> 0, window |-> 0,
     kind |-> "none", msg |-> "", value |-> <<>>, number |-> None]
Handle == 1
NoFrame == [kind |-> "none"]

\* OrderBook.__init__ and the __init__ of the two adapters; the thread object
\* exists, start() has not been called
\* (PoloniexOrderBook.__init__ hands log_method and log_level on to
\* OrderBook.__init__, which takes only markets and timeout, so as shipped the
\* Poloniex constructor raises TypeError; the Poloniex adapter is modelled
\* as constructed with the fields that OrderBook.__init__ sets)
ConstructedFor(configured) ==
    /\ adapter \in {"bitfinex", "poloniex"}
    /\ markets = configured
    /\ data_store = EmptyStore
    /\ socket_handle = None
    /\ restart = FALSE
    /\ running = TRUE
    /\ now = 0
    /\ last_heartbeat = 0
    /\ channel_id_to_market = EmptyTable
    /\ market_id_to_market = EmptyTable
    /\ pc = "idle"
    /\ idx = 0
    /\ connection_tries = 0
    /\ connection_delay = 0
    /\ qres = NoQuery
    /\ gapped = {}
    /\ stream = 0
    /\ pending = <<>>
    /\ done = <<>>
    /\ waiter = "none"
    /\ wire = NoFrame

\* the engine of the specifications is configured with one market
Constructed == ConstructedFor(<<K1>>)

\* neither adapter class sets soft_delete_fail
Init == Constructed /\ soft_delete_fail = FALSE

\* no query call is between its first line and its return
Idle == qres.op = "none"

\* ------------------------------------------------------------ the engine thread
\* threading.Thread.start(): run() begins
Start ==
    /\ Idle
    /\ pc = "idle"
    /\ pc' = "loop_test"
    /\ UNCHANGED <<config_vars, waiter, data_store, socket_handle, restart, running,
                   last_heartbeat, channel_id_to_market, market_id_to_market, idx,
                   connection_tries, connection_delay, now, qres, gapped, step_vars>>

\* "while self.running:" and the two locals set at the top of its body
LoopTest ==
    /\ Idle
    /\ pc = "loop_test"
    /\ IF running
       THEN /\ pc' = "init_store"
            /\ idx' = 1
            /\ connection_tries' = 0
            /\ connection_delay' = 0
       ELSE /\ pc' = "final_disconnect"
            /\ UNCHANGED <<idx, connection_tries, connection_delay>>
    /\ UNCHANGED <<config_vars, waiter, data_store, socket_handle, restart, running,
                   last_heartbeat, channel_id_to_market, market_id_to_market, now, qres, gapped, step_vars>>

\* one iteration of "for currency_pair in self.markets", or the end of that loop
InitStore ==
    /\ Idle
    /\ pc = "init_store"
    /\ IF idx <= Len(markets)
       THEN /\ data_store' = [k \in DOMAIN data_store \cup {markets[idx]} |->
                                 IF k = markets[idx] THEN EmptyMarket ELSE data_store[k]]
            /\ idx' = idx + 1
            /\ pc' = pc
       ELSE /\ pc' = "connect"
            /\ idx' = 0
            /\ UNCHANGED data_store
    /\ UNCHANGED <<config_vars, waiter, socket_handle, restart, running, last_heartbeat,
                   channel_id_to_market, market_id_to_market,
                   connection_tries, connection_delay, now, qres, gapped, step_vars>>

\* the body of "while self.socket_handle is None": connect() returns a handle
ConnectOk ==
    /\ Idle
    /\ pc = "connect"
    /\ socket_handle = None
    /\ socket_handle' = Handle
    /\ stream' = 0
    /\ wire' = NoFrame
    /\ UNCHANGED <<config_vars, waiter, data_store, restart, running, last_heartbeat,
                   channel_id_to_market, market_id_to_market, pc, idx,
                   connection_tries, connection_delay, now, qres, gapped, pending, done>>

\* "while self.socket_handle is None" ends
Connected ==
    /\ Idle
    /\ pc = "connect"
    /\ socket_handle # None
    /\ pc' = "subscribe"
    /\ idx' = 1
    /\ UNCHANGED <<config_vars, waiter, data_store, socket_handle, restart, running,
                   last_heartbeat, channel_id_to_market, market_id_to_market,
                   connection_tries, connection_delay, now, qres, gapped, step_vars>>

\* connect() raises OrderBookError, with the delay raised one failure earlier
ConnectFailEager(limit) ==
    /\ Idle
    /\ pc = "connect"
    /\ socket_handle = None
    /\ connection_tries < limit
    /\ connection_tries' = connection_tries + 1
    /\ connection_delay' = IF connection_tries' > 2
                           THEN Min(connection_tries' - 2, 5) ELSE connection_delay
    /\ pc' = IF connection_tries' > MaxTries THEN "failed" ELSE pc
    /\ UNCHANGED <<config_vars, waiter, data_store, socket_handle, restart, running,
                   last_heartbeat, channel_id_to_market, market_id_to_market, idx,
                   now, qres, gapped, step_vars>>

\* connect() raises OrderBookError, which it does at most limit times in a row
ConnectFailUpTo(limit) ==
    /\ Idle
    /\ pc = "connect"
    /\ socket_handle = None
    /\ connection_tries < limit
    /\ connection_tries' = connection_tries + 1
    /\ connection_delay' = IF connection_tries' > 3
                           THEN Min(connection_tries' - 3, 5) ELSE connection_delay
    /\ pc' = IF connection_tries' > MaxTries THEN "failed" ELSE pc
    /\ UNCHANGED <<config_vars, waiter, data_store, socket_handle, restart, running,
                   last_heartbeat, channel_id_to_market, market_id_to_market, idx,
                   now, qres, gapped, step_vars>>

ConnectFail == ConnectFailUpTo(MaxFail)

\* a subscription loop that leaves the status of the markets alone
SubscribeSilent ==
    /\ Idle
    /\ pc = "subscribe"
    /\ IF idx <= Len(markets)
       THEN /\ idx' = idx + 1
            /\ pc' = pc
       ELSE /\ pc' = "receive"
            /\ idx' = 0
    /\ UNCHANGED <<config_vars, waiter, data_store, socket_handle, restart, running,
                   last_heartbeat, channel_id_to_market, market_id_to_market,
                   connection_tries, connection_delay, now, qres, gapped, step_vars>>

\* one iteration of "for pair, _ in self.data_store.items()" (the keys come in
\* the order of insertion, which is the order of self.markets), or its end
Subscribe ==
    /\ Idle
    /\ pc = "subscribe"
    /\ IF idx <= Len(markets)
       THEN /\ data_store' = [data_store EXCEPT ![markets[idx]].status = "initialising"]
            /\ idx' = idx + 1
            /\ pc' = pc
       ELSE /\ pc' = "receive"
            /\ idx' = 0
            /\ UNCHANGED data_store
    /\ UNCHANGED <<config_vars, waiter, socket_handle, restart, running, last_heartbeat,
                   channel_id_to_market, market_id_to_market,
                   connection_tries, connection_delay, now, qres, gapped, step_vars>>

Frames == IF adapter = "bitfinex" THEN BitfinexFrames ELSE PoloniexFrames

\* self.receive() of the adapter class
receive(frame) ==
    IF adapter = "bitfinex"
    THEN bitfinex_receive(frame, channel_id_to_market, data_store, restart)
    ELSE poloniex_receive(frame, market_id_to_market, data_store, restart)

\* the body of "while self.running and not self.restart" for one frame: the
\* engine state afterwards, [data_store, restart, raised, table, heartbeat]
Processed(st, table, heartbeat) ==
    [data_store |-> st.data_store, restart |-> st.restart, raised |-> st.raised,
     table |-> table, heartbeat |-> heartbeat]
AfterReceive(r, soft, heartbeat, clock) ==
    IF r.raised = "OrderBookError"
    THEN [data_store |-> r.data_store, restart |-> TRUE, raised |-> NoError,
          table |-> r.table, heartbeat |-> heartbeat]
    ELSE IF r.raised # NoError
    THEN [data_store |-> r.data_store, restart |-> r.restart, raised |-> r.raised,
          table |-> r.table, heartbeat |-> heartbeat]
    ELSE Processed(ProcessUpdates([data_store |-> r.data_store, restart |-> r.restart,
                                   raised |-> NoError],
                                  r.updates, 1, soft),
                   r.table,
                   IF Len(r.updates) > 0 THEN clock ELSE heartbeat)
ReceiveResult(frame) == AfterReceive(receive(frame), soft_delete_fail, last_heartbeat, now)

\* the frame makes verify_sequence see sequence n + 2 after n
SkipsOne(frame, r) ==
    /\ adapter = "poloniex"
    /\ frame.kind = "msg"
    /\ r.raised = NoError
    /\ data_store[r.table[frame.market_id]].last_sequence # None
    /\ frame.sequence = data_store[r.table[frame.market_id]].last_sequence + 2

Activated(store) ==
    {k \in DOMAIN store \cap DOMAIN data_store :
        store[k].status = "active" /\ data_store[k].status # "active"}

\* one iteration of the receive loop on the frame: receive(), then every
\* mutation it returned
Took(frame) ==
    /\ \E r \in {receive(frame)} :
       \E res \in {AfterReceive(r, soft_delete_fail, last_heartbeat, now)} :
          /\ gapped' = IF SkipsOne(frame, r)
                        THEN gapped \cup {r.table[frame.market_id]}
                        ELSE gapped \ Activated(res.data_store)
          /\ data_store' = res.data_store
          /\ restart' = res.restart
          /\ last_heartbeat' = res.heartbeat
          /\ pc' = IF res.raised # NoError THEN "crashed" ELSE pc
          /\ IF adapter = "bitfinex"
             THEN channel_id_to_market' = res.table /\ UNCHANGED market_id_to_market
             ELSE market_id_to_market' = res.table /\ UNCHANGED channel_id_to_market
    /\ UNCHANGED <<config_vars, waiter, socket_handle, running, idx,
                   connection_tries, connection_delay, now, qres, pending, done>>

\* one iteration of the receive loop, the frame drawn from frames
Receive(frames) ==
    /\ Idle
    /\ pc = "receive"
    /\ running /\ ~restart
    /\ \E frame \in frames : Took(frame)
    /\ UNCHANGED <<stream, wire>>

\* the receive loop ends: self.running is false or self.restart is true
ExitReceive ==
    /\ Idle
    /\ pc = "receive"
    /\ ~(running /\ ~restart)
    /\ pc' = "restart_check"
    /\ UNCHANGED <<config_vars, waiter, data_store, socket_handle, restart, running,
                   last_heartbeat, channel_id_to_market, market_id_to_market, idx,
                   connection_tries, connection_delay, now, qres, gapped, step_vars>>

\* the restart block is skipped
RestartCheckSkipped ==
    /\ Idle
    /\ pc = "restart_check"
    /\ pc' = "loop_test"
    /\ UNCHANGED <<config_vars, waiter, data_store, socket_handle, restart, running,
                   last_heartbeat, channel_id_to_market, market_id_to_market, idx,
                   connection_tries, connection_delay, now, qres, gapped, step_vars>>

\* "if self.restart and self.running": disconnect, clear, reset_data_structures
RestartCheck ==
    /\ Idle
    /\ pc = "restart_check"
    /\ IF restart /\ running
       THEN /\ data_store' = EmptyStore
            /\ socket_handle' = None
            /\ restart' = FALSE
            /\ market_id_to_market' =
                  IF adapter = "poloniex" THEN EmptyTable ELSE market_id_to_market
       ELSE UNCHANGED <<data_store, socket_handle, restart, market_id_to_market>>
    /\ pc' = "loop_test"
    /\ UNCHANGED <<config_vars, waiter, running, last_heartbeat, channel_id_to_market, idx,
                   connection_tries, connection_delay, now, qres, gapped, step_vars>>

\* "self.disconnect()" after the outer loop: self.socket_handle.close(timeout=3)
FinalDisconnect ==
    /\ Idle
    /\ pc = "final_disconnect"
    /\ pc' = IF socket_handle = None THEN "crashed" ELSE "done"
    /\ UNCHANGED <<config_vars, waiter, data_store, socket_handle, restart, running,
                   last_heartbeat, channel_id_to_market, market_id_to_market, idx,
                   connection_tries, connection_delay, now, qres, gapped, step_vars>>

\* ----------------------------------------------------------------- the callers
\* OrderBook.stop
Stop ==
    /\ Idle
    /\ running
    /\ running' = FALSE
    /\ UNCHANGED <<config_vars, waiter, data_store, socket_handle, restart, last_heartbeat,
                   channel_id_to_market, market_id_to_market, pc, idx,
                   connection_tries, connection_delay, now, qres, gapped, step_vars>>

\* what the caller holds: a returned list in value, a returned number in number
Returned(q, o) ==
    [op |-> q.op, key |-> q.key, arg |-> q.arg, window |-> q.window,
     kind |-> o.kind, msg |-> o.msg,
     value |-> IF o.kind = "value" /\ q.op \in {"get_top_asks", "get_top_bids"}
               THEN o.value ELSE <<>>,
     number |-> IF o.kind = "value" /\ q.op \notin {"get_top_asks", "get_top_bids"}
                THEN o.value[1] ELSE None]

\* one query call, from its first line to its return or raise
QueryCall(queries) ==
    /\ Idle
    /\ \E q \in queries :
          \E o \in {QueryOutcome(q, data_store, restart, last_heartbeat, now)} :
             /\ restart' = o.restart
             /\ qres' = Returned(q, o)
    /\ UNCHANGED <<config_vars, waiter, data_store, socket_handle, running, last_heartbeat,
                   channel_id_to_market, market_id_to_market, pc, idx,
                   connection_tries, connection_delay, now, gapped, step_vars>>

\* the caller has looked at the outcome
QueryReturn ==
    /\ qres.op # "none"
    /\ qres' = NoQuery
    /\ UNCHANGED <<config_vars, waiter, engine_vars, now, gapped, step_vars>>

\* a caller calls complete_initialisation() and reaches the test of its loop
CompleteCall ==
    /\ waiter = "none"
    /\ waiter' = "test"
    /\ UNCHANGED <<config_vars, engine_vars, now, qres, gapped, step_vars>>

\* initialisation_completed(): "if len(self.data_store) == 0: return False",
\* after which complete_initialisation() sleeps and tests again
CompleteLen ==
    /\ waiter = "test"
    /\ waiter' = IF DOMAIN data_store = {} THEN "test" ELSE "loop"
    /\ UNCHANGED <<config_vars, engine_vars, now, qres, gapped, step_vars>>

\* initialisation_completed(): "for _, item in self.data_store.items()" over
\* what self.data_store is by now, and the return of True at its end
CompleteLoop ==
    /\ waiter = "loop"
    /\ waiter' = IF \A k \in DOMAIN data_store : data_store[k].status = "active"
                 THEN "returned" ELSE "test"
    /\ UNCHANGED <<config_vars, engine_vars, now, qres, gapped, step_vars>>

\* the wall clock advances
Tick ==
    /\ Idle
    /\ now < MaxTime
    /\ now' = now + 1
    /\ UNCHANGED <<config_vars, waiter, engine_vars, qres, gapped, step_vars>>

\* the frames and queries of the specifications with stop(): one item per
\* frame, one price
LiteFrame(f) ==
    CASE f.kind = "snapshot" -> Len(f.items) <= 1 /\ \A i \in 1..Len(f.items) : f.items[i][1] = 2
      [] f.kind = "delta" -> f.item[1] = 2
      [] f.kind = "msg" ->
            /\ Len(f.updates) <= 1
            /\ \A i \in 1..Len(f.updates) :
                  IF f.updates[i].tag = "i"
                  THEN /\ Len(f.updates[i].asks) <= 1
                       /\ \A j \in 1..Len(f.updates[i].asks) : float(f.updates[i].asks[j][1]) = 2
                       /\ \A j \in 1..Len(f.updates[i].bids) : float(f.updates[i].bids[j][1]) = 2
                  ELSE float(f.updates[i].rate) = 2
      [] OTHER -> TRUE
LiteBitfinexFrames == {f \in BitfinexFrames : LiteFrame(f)}
LitePoloniexFrames == {f \in PoloniexFrames : LiteFrame(f)}
LiteFrames == IF adapter = "bitfinex" THEN LiteBitfinexFrames ELSE LitePoloniexFrames
LiteQueries == {q \in Queries : q.key = K1 /\ q.arg \in {0, 1}}

\* the engine thread while nobody calls stop()
Replication ==
    \/ Start
    \/ LoopTest
    \/ InitStore
    \/ ConnectOk
    \/ ConnectFail
    \/ Connected
    \/ Subscribe
    \/ Receive(Frames)
    \/ ExitReceive
    \/ RestartCheck

BookNext ==
    \/ Replication
    \/ Tick
    \/ QueryCall(Queries)
    \/ QueryReturn

\* replication and queries: every frame and every query, no stop()
BookSpec == Init /\ [][BookNext]_vars

Engine ==
    \/ Start
    \/ LoopTest
    \/ InitStore
    \/ ConnectOk
    \/ ConnectFail
    \/ Connected
    \/ Subscribe
    \/ Receive(LiteFrames)
    \/ ExitReceive
    \/ RestartCheck
    \/ FinalDisconnect

Next ==
    \/ Engine
    \/ Stop
    \/ Tick
    \/ QueryCall(LiteQueries)
    \/ QueryReturn

\* the whole life of the engine, stop() included, on the small frames
Spec == Init /\ [][Next]_vars

\* the engine thread is scheduled again and again (a blocked recv() ends in a
\* frame or in a timeout) however often callers query: an engine step waits
\* only for the query call in progress, so its fairness is strong. A query
\* call returns; callers need not call
FairSpec == Spec /\ SF_vars(Engine) /\ WF_vars(QueryReturn)

\* ------------------------------------------------- the connection loop alone
\* recv() raises on the socket: the connection is lost
TransportErrors == {[kind |-> "transport_error"]}

ConnectNext ==
    \/ Start
    \/ LoopTest
    \/ InitStore
    \/ ConnectOk
    \/ ConnectFailUpTo(MaxTries + 1)
    \/ Connected
    \/ Subscribe
    \/ Receive(TransportErrors)
    \/ ExitReceive
    \/ RestartCheck

\* the engine over its connection phases, each of which ends with the loss of
\* the connection, with connect() free to fail as often as the loop lets it
ConnectSpec == Init /\ [][ConnectNext]_vars

\* ------------------------------------------ frames with sizes out of range
\* a Bitfinex triple with count # 0 and amount 0; a Poloniex 'o' item with a
\* negative size
ZeroAmountFrames ==
    {[kind |-> "delta", chanId |-> c, item |-> <<2, 1, 0>>] : c \in ChanIds}
NegativeSizeFrames ==
    {[kind |-> "msg", market_id |-> m, sequence |-> n,
      updates |-> <<[tag |-> "o", side |-> sd, rate |-> NumStr(2), amount |-> NumStr(-1)]>>] :
        m \in MarketIds, n \in SeqNums, sd \in {0, 1}}
SizeFrames ==
    LiteFrames \cup (IF adapter = "bitfinex" THEN ZeroAmountFrames ELSE NegativeSizeFrames)

SizeNext ==
    \/ Start
    \/ LoopTest
    \/ InitStore
    \/ ConnectOk
    \/ ConnectFail
    \/ Connected
    \/ Subscribe
    \/ Receive(SizeFrames)
    \/ ExitReceive
    \/ RestartCheck

\* the engine thread with a peer that also sends sizes of zero and below
SizeSpec == Init /\ [][SizeNext]_vars

\* ------------------------------- a caller waiting for the initialisation
WaitNext ==
    \/ Start
    \/ LoopTest
    \/ InitStore
    \/ ConnectOk
    \/ ConnectFail
    \/ Connected
    \/ Subscribe
    \/ Receive(LiteFrames)
    \/ ExitReceive
    \/ RestartCheck
    \/ CompleteCall
    \/ CompleteLen
    \/ CompleteLoop

\* the engine thread and one caller of complete_initialisation()
WaitSpec == Init /\ [][WaitNext]_vars

\* ------------------------------------------- the receive loop step by step
\* "updates = self.receive()": the adapter decodes one frame; what it returns
\* waits in pending, an OrderBookError sets restart
Decoded(frame) ==
    /\ \E r \in {receive(frame)} :
          /\ gapped' = IF SkipsOne(frame, r)
                        THEN gapped \cup {r.table[frame.market_id]} ELSE gapped
          /\ data_store' = r.data_store
          /\ restart' = IF r.raised = "OrderBookError" THEN TRUE ELSE r.restart
          /\ pending' = IF r.raised = NoError THEN r.updates ELSE <<>>
          /\ pc' = IF r.raised \notin {NoError, "OrderBookError"} THEN "crashed"
                   ELSE IF r.raised = NoError /\ Len(r.updates) > 0 THEN "apply"
                   ELSE pc
          /\ IF adapter = "bitfinex"
             THEN channel_id_to_market' = r.table /\ UNCHANGED market_id_to_market
             ELSE market_id_to_market' = r.table /\ UNCHANGED channel_id_to_market
    /\ done' = <<>>
    /\ UNCHANGED <<config_vars, waiter, socket_handle, running, last_heartbeat, idx,
                   connection_tries, connection_delay, now, qres>>

\* "updates = self.receive()" on a frame drawn from frames
Decode(frames) ==
    /\ Idle
    /\ pc = "receive"
    /\ running /\ ~restart
    /\ \E frame \in frames : Decoded(frame)
    /\ UNCHANGED <<stream, wire>>

\* a call of self.update() that refreshes last_heartbeat for heartbeats only
UpdateCallLate ==
    /\ Idle
    /\ pc = "apply"
    /\ \E st \in {update([data_store |-> data_store, restart |-> restart, raised |-> NoError],
                          Head(pending), Len(pending) = 1, soft_delete_fail)} :
          /\ data_store' = st.data_store
          /\ restart' = st.restart
          /\ gapped' = gapped \ Activated(st.data_store)
          /\ pc' = IF st.raised # NoError THEN "crashed"
                   ELSE IF Len(pending) = 1 THEN "receive" ELSE pc
    /\ last_heartbeat' = IF Head(pending) = Heartbeat THEN now ELSE last_heartbeat
    /\ pending' = Tail(pending)
    /\ UNCHANGED <<config_vars, waiter, socket_handle, running, channel_id_to_market,
                   market_id_to_market, idx, connection_tries, connection_delay,
                   now, qres, stream, wire>>

\* one call of self.update() in "for item in updates[:-1]: self.update(item)"
\* or "self.update(updates[-1], True)"
UpdateCall ==
    /\ Idle
    /\ pc = "apply"
    /\ \E st \in {update([data_store |-> data_store, restart |-> restart, raised |-> NoError],
                          Head(pending), Len(pending) = 1, soft_delete_fail)} :
          /\ data_store' = st.data_store
          /\ restart' = st.restart
          /\ gapped' = gapped \ Activated(st.data_store)
          /\ pc' = IF st.raised # NoError THEN "crashed"
                   ELSE IF Len(pending) = 1 THEN "receive" ELSE pc
    /\ last_heartbeat' = now
    /\ pending' = Tail(pending)
    /\ UNCHANGED <<config_vars, waiter, socket_handle, running, channel_id_to_market,
                   market_id_to_market, idx, connection_tries, connection_delay,
                   now, qres, stream, wire>>

\* the call of self.update(), with done holding the part of the frame that is
\* applied for as long as a part of it is not
ApplyOne ==
    /\ UpdateCall
    /\ done' = IF Len(pending) = 1 THEN <<>> ELSE Append(done, Head(pending))

\* a subclass may set soft_delete_fail
StepInit == Constructed /\ soft_delete_fail \in BOOLEAN

StepQueries ==
    {q \in Queries : q.key = K1 /\ q.op = "get_top_asks" /\ q.arg = 1}

StepNext ==
    \/ Start
    \/ LoopTest
    \/ InitStore
    \/ ConnectOk
    \/ ConnectFail
    \/ Connected
    \/ Subscribe
    \/ Decode(Frames)
    \/ ApplyOne
    \/ ExitReceive
    \/ RestartCheck
    \/ QueryCall(StepQueries)
    \/ QueryReturn

\* the engine applying a frame one mutation at a time, with queries between
\* any two of its steps
StepSpec == StepInit /\ [][StepNext]_vars

\* ----------------------------------- the steps of the engine and the clock
BeatNext ==
    \/ Start
    \/ LoopTest
    \/ InitStore
    \/ ConnectOk
    \/ ConnectFail
    \/ Connected
    \/ Subscribe
    \/ Decode(LiteFrames)
    \/ ApplyOne
    \/ ExitReceive
    \/ RestartCheck
    \/ QueryCall(StepQueries)
    \/ QueryReturn
    \/ Tick

\* the engine applying one mutation at a time while the clock advances and
\* a caller queries
BeatSpec == StepInit /\ [][BeatNext]_vars

\* ---------------------------------------------- an engine with two markets
StatusInit == ConstructedFor(<<K1, K2>>) /\ soft_delete_fail = FALSE

StatusNext ==
    \/ Start
    \/ LoopTest
    \/ InitStore
    \/ ConnectOk
    \/ ConnectFail
    \/ Connected
    \/ Subscribe
    \/ Decode(LiteFrames)
    \/ ApplyOne
    \/ ExitReceive
    \/ RestartCheck

\* the engine configured with two markets, of which the peer serves the first
StatusSpec == StatusInit /\ [][StatusNext]_vars

\* the query surface called with valid arguments for the two configured markets
PairQueries ==
    {Query(op, k, 1, w) : op \in {"get_top_asks", "get_top_bids", "get_middle",
                                  "get_ask_rate_amount", "get_bid_rate_amount"},
                          k \in {K1, K2}, w \in Windows}

PairNext ==
    \/ Start
    \/ LoopTest
    \/ InitStore
    \/ ConnectOk
    \/ ConnectFail
    \/ Connected
    \/ Subscribe
    \/ Receive(LiteFrames)
    \/ ExitReceive
    \/ RestartCheck
    \/ QueryCall(PairQueries)
    \/ QueryReturn

\* the engine configured with two markets and a caller that queries both
PairSpec == StatusInit /\ [][PairNext]_vars

\* --------------------------------------------------- OrderBook.update alone
MaxOps == 3
Kinds == {"update_ask", "update_bid", "remove_ask", "remove_bid"}
AmountsOf(type) == IF type \in {"update_ask", "update_bid"} THEN Sizes ELSE {0}

\* the mutations for the first market, and one of each kind for the second
Mutations ==
    {Heartbeat}
    \cup {Mutation(t, K1, p, a) : t \in Kinds, p \in Prices, a \in Sizes \cup {0}}
    \cup {Mutation(t, K2, 2, a) : t \in Kinds, a \in {0, 1}}
Batches ==
    UNION {{b \in [1..n -> Mutations] :
               \A i \in 1..n : b[i] = Heartbeat \/ b[i].amount \in AmountsOf(b[i].type)} :
           n \in 1..MaxOps}

\* a Bitfinex engine with two markets, subscribed on both, that has decoded
\* its first batch of mutations
UpdateInit ==
    /\ adapter = "bitfinex"
    /\ markets = <<K1, K2>>
    /\ soft_delete_fail = FALSE
    /\ data_store = [k \in {K1, K2} |-> [EmptyMarket EXCEPT !.status = "initialising"]]
    /\ socket_handle = Handle
    /\ restart = FALSE
    /\ running = TRUE
    /\ now = 0
    /\ last_heartbeat = 0
    /\ channel_id_to_market = (17 :> K1 @@ 18 :> K2)
    /\ market_id_to_market = EmptyTable
    /\ pc = "apply"
    /\ idx = 0
    /\ connection_tries = 0
    /\ connection_delay = 0
    /\ qres = NoQuery
    /\ gapped = {}
    /\ stream = 0
    /\ pending \in Batches
    /\ done = <<>>
    /\ waiter = "none"
    /\ wire = NoFrame

\* the call of self.update(), with done holding all that is applied
ApplyRecorded ==
    /\ UpdateCall
    /\ done' = Append(done, Head(pending))

UpdateNext ==
    \/ ApplyRecorded

\* self.update() applied to the mutations of one batch in turn, from empty
\* ladders
UpdateSpec == UpdateInit /\ [][UpdateNext]_vars

\* ------------------------------------------------ a peer that plays a script
\* the three frames of a session, prices in hundredths and the sizes of levels
\* in halves (the amount of a Bitfinex triple with count 0 names a side and
\* is not a size)
BitfinexScript ==
    <<[kind |-> "subscribed", pair |-> "ETHBTC", chanId |-> 17],
      [kind |-> "snapshot", chanId |-> 17, items |-> <<<<5, 3, 2>>, <<6, 2, -4>>, <<4, 1, 1>>>>],
      [kind |-> "delta", chanId |-> 17, item |-> <<5, 0, 1>>]>>
PoloniexScript ==
    <<[kind |-> "msg", market_id |-> 148, sequence |-> 1,
       updates |-> <<[tag |-> "i", currencyPair |-> "BTC_ETH",
                      asks |-> <<<<NumStr(6), NumStr(4)>>>>,
                      bids |-> <<<<NumStr(4), NumStr(1)>>>>]>>],
      [kind |-> "msg", market_id |-> 148, sequence |-> 2,
       updates |-> <<[tag |-> "o", side |-> 1, rate |-> NumStr(4), amount |-> NumStr(3)]>>],
      [kind |-> "msg", market_id |-> 148, sequence |-> 3,
       updates |-> <<[tag |-> "o", side |-> 0, rate |-> NumStr(6), amount |-> NumStr(0)]>>]>>
Script == IF adapter = "bitfinex" THEN BitfinexScript ELSE PoloniexScript

\* frames of two items at one price
PairSnapshots ==
    {[kind |-> "snapshot", chanId |-> c, items |-> <<a, b>>] :
        c \in ChanIds, a \in {t \in Triples : t[1] = 2}, b \in {t \in Triples : t[1] = 2}}
PairOrders ==
    {[kind |-> "msg", market_id |-> m, sequence |-> n, updates |-> <<a, b>>] :
        m \in MarketIds, n \in SeqNums,
        a \in {it \in OrderItems : float(it.rate) = 2},
        b \in {it \in OrderItems : float(it.rate) = 2}}
FreeFrames ==
    LiteFrames \cup (IF adapter = "bitfinex" THEN PairSnapshots ELSE PairOrders)

\* the peer sends the next frame of the script, or leaves the script for good
\* with another frame, and receive() decodes what it sent; stream counts the
\* frames of the script sent on this connection while the peer is on it
PeerSends ==
    /\ Idle
    /\ pc = "receive"
    /\ running /\ ~restart
    /\ \/ /\ stream < Len(Script)
          /\ Decoded(Script[stream + 1])
          /\ wire' = Script[stream + 1]
          /\ stream' = stream + 1
       \/ \E frame \in FreeFrames :
             /\ Decoded(frame)
             /\ wire' = frame
             /\ stream' = Len(Script) + 1

ScriptNext ==
    \/ Start
    \/ LoopTest
    \/ InitStore
    \/ ConnectOk
    \/ ConnectFail
    \/ Connected
    \/ Subscribe
    \/ PeerSends
    \/ ApplyOne
    \/ ExitReceive
    \/ RestartCheck

\* the engine thread, one self.update() at a time, with the frame it has
\* received last kept in wire
ScriptSpec == Init /\ [][ScriptNext]_vars

\* ---------------------------------------------------- a peer that keeps to
\* the protocol: on every connection Bitfinex confirms the subscription with
\* channel id 17, sends a snapshot of levels and then updates, deletions and
\* heartbeats; Poloniex sends an 'i' item with a level and then 'o' items
\* under consecutive sequence numbers, and heartbeats
MaxStream == 2
GoodBitfinexFrames ==
    {f \in LiteBitfinexFrames :
        CASE stream = 0 -> f.kind = "subscribed"
          [] stream = 1 -> /\ f.kind = "snapshot" /\ Len(f.items) = 1
                           /\ f.items[1][2] # 0
          [] OTHER -> \/ f.kind = "hb"
                      \/ /\ f.kind = "delta"
                         /\ (f.item[2] # 0 \/ f.item[3] \in {-1, 1})}
GoodPoloniexFrames ==
    {f \in LitePoloniexFrames :
        CASE stream = 0 -> /\ f.kind = "msg" /\ Len(f.updates) = 1
                           /\ f.updates[1].tag = "i"
                           /\ Len(f.updates[1].asks) + Len(f.updates[1].bids) > 0
          [] OTHER -> \/ f.kind = "hb"
                      \/ /\ f.kind = "msg" /\ Len(f.updates) = 1
                         /\ f.updates[1].tag = "o"
                         /\ K1 \in DOMAIN data_store
                         /\ f.sequence = data_store[K1].last_sequence + 1}
GoodFrames == IF adapter = "bitfinex" THEN GoodBitfinexFrames ELSE GoodPoloniexFrames

\* one iteration of the receive loop on the next frame of such a peer
GoodReceive ==
    /\ Idle
    /\ pc = "receive"
    /\ running /\ ~restart
    /\ \E frame \in GoodFrames : Took(frame)
    /\ stream' = IF stream < MaxStream THEN stream + 1 ELSE stream
    /\ UNCHANGED wire

GoodNext ==
    \/ Start
    \/ LoopTest
    \/ InitStore
    \/ ConnectOk
    \/ ConnectFail
    \/ Connected
    \/ Subscribe
    \/ GoodReceive
    \/ ExitReceive
    \/ RestartCheck

\* the engine with such a peer, stop() never called, connect() succeeding
\* after at most MaxFail failures, the engine thread scheduled again and again
GoodSpec == Init /\ [][GoodNext]_vars /\ WF_vars(GoodNext)

\* ------------------------------------------------------------------ properties
Asks(k) == data_store[k].order_book_ask
Bids(k) == data_store[k].order_book_bid
PricesOf(book) == {book[i][1] : i \in 1..Len(book)}
StrictlyAscending(book) == \A i \in 1..(Len(book) - 1) : book[i][1] < book[i + 1][1]
StrictlyDescending(book) == \A i \in 1..(Len(book) - 1) : book[i][1] > book[i + 1][1]
OncePerPrice(book) == \A i, j \in 1..Len(book) : book[i][1] = book[j][1] => i = j
LowestPrice(book) == CHOOSE p \in PricesOf(book) : \A r \in PricesOf(book) : p <= r
HighestPrice(book) == CHOOSE p \in PricesOf(book) : \A r \in PricesOf(book) : p >= r
\* the size stored at the level of price p
SizeAt(book, p) == book[CHOOSE i \in 1..Len(book) : book[i][1] = p][2]
BothSides(k) == k \in DOMAIN data_store /\ Len(Asks(k)) > 0 /\ Len(Bids(k)) > 0
\* min(asks) <= max(bids)
Crossed(k) == BothSides(k) /\ LowestPrice(Asks(k)) <= HighestPrice(Bids(k))
Queried(k) == qres.op # "none" /\ qres.key = k
OutOfSync == "OrderBookOutOfSync"
Stale == now > last_heartbeat + qres.window
\* the query passed the first five checks of verify_status
ReachedSixth(k) ==
    /\ Queried(k)
    /\ qres.msg \notin {"initialising", "unknown pair", "restart initialised",
                        "not active", "stale"}

\* C1: after every frame of either adapter each price occurs at most once in
\* each ladder, the ask ladder is strictly ascending by price and the bid
\* ladder strictly descending
C1_LaddersSorted ==
    \A k \in DOMAIN data_store :
        /\ OncePerPrice(Asks(k)) /\ OncePerPrice(Bids(k))
        /\ StrictlyAscending(Asks(k))
        /\ StrictlyDescending(Bids(k))

\* both ladders hold two levels and the market is active
C1_TwoLevelsEach ==
    /\ pc = "receive"
    /\ K1 \in DOMAIN data_store
    /\ Len(Asks(K1)) >= 2 /\ Len(Bids(K1)) >= 2
    /\ data_store[K1].status = "active"

CrossedAsCompared(k) ==
    /\ BothSides(k)
    /\ \/ LowestPrice(Asks(k)) < HighestPrice(Bids(k))
       \/ /\ LowestPrice(Asks(k)) = HighestPrice(Bids(k))
          /\ SizeAt(Asks(k), LowestPrice(Asks(k))) <= SizeAt(Bids(k), HighestPrice(Bids(k)))

C3_SixthCheckByPricesOnly ==
    (ReachedSixth(K1) /\ BothSides(K1)) =>
        ((qres.kind = OutOfSync /\ qres.msg = "inconsistent" /\ restart)
            <=> LowestPrice(Asks(K1)) <= HighestPrice(Bids(K1)))

\* the query got through verify_status and its argument check
Answered(op) == qres.op = op /\ qres.kind \in {"value", "None", "IndexError"}

\* C7: get_ask_rate_amount on a market that passes verify_status returns the
\* size stored at the rate and 0 for a rate that is no level of the ladder
\* (below, between, above the levels, or the ladder empty); the same for
\* get_bid_rate_amount
C7_DepthIsSizeOrZero ==
    /\ Answered("get_ask_rate_amount") =>
          /\ qres.kind = "value"
          /\ qres.number = IF qres.arg \in PricesOf(Asks(qres.key))
                           THEN SizeAt(Asks(qres.key), qres.arg) ELSE 0
    /\ Answered("get_bid_rate_amount") =>
          /\ qres.kind = "value"
          /\ qres.number = IF qres.arg \in PricesOf(Bids(qres.key))
                           THEN SizeAt(Bids(qres.key), qres.arg) ELSE 0

\* the entries of book with the best n prices, best first
IsTop(value, book, n, ascending) ==
    /\ Len(value) = Min(n, Len(book))
    /\ \A i \in 1..Len(value) : \E j \in 1..Len(book) : value[i] = book[j]
    /\ IF ascending THEN StrictlyAscending(value) ELSE StrictlyDescending(value)
    /\ \A j \in 1..Len(book) :
          \/ \E i \in 1..Len(value) : value[i] = book[j]
          \/ \A i \in 1..Len(value) :
                IF ascending THEN value[i][1] < book[j][1] ELSE value[i][1] > book[j][1]

\* the query passed verify_status
PassedVerify(k) == Queried(k) /\ ~(qres.kind = OutOfSync \/ qres.msg = "unknown pair")

\* C8: for 1 <= k <= 5000 on a market that passes verify_status, get_top_asks
\* returns exactly min(k, levels) entries, the lowest-priced ask levels in
\* ascending order, and get_top_bids the highest-priced bid levels in
\* descending order
C8_TopIsBestLevels ==
    \A k \in DOMAIN data_store :
        (PassedVerify(k) /\ qres.arg >= 1 /\ qres.arg <= MaxAmount) =>
            /\ qres.op = "get_top_asks" =>
                  qres.kind = "value" /\ IsTop(qres.value, Asks(k), qres.arg, TRUE)
            /\ qres.op = "get_top_bids" =>
                  qres.kind = "value" /\ IsTop(qres.value, Bids(k), qres.arg, FALSE)

\* get_top_bids(1) has returned one of two bid levels
C8_OneOfTwoBids ==
    /\ Queried(K1) /\ qres.op = "get_top_bids" /\ qres.arg = 1
    /\ qres.kind = "value" /\ Len(qres.value) = 1
    /\ Len(Bids(K1)) = 2

\* what Queried(k) must show when the checks of verify_status are taken in
\* their order on the state the call started in (unprimed); the sixth check
\* is min(asks) <= max(bids)
ReportsFirstFailingCheck ==
    LET k == qres'.key
    IN IF DOMAIN data_store = {}
       THEN qres'.kind = OutOfSync /\ qres'.msg = "initialising" /\ UNCHANGED restart
       ELSE IF k \notin DOMAIN data_store
       THEN qres'.kind = "OrderBookError" /\ qres'.msg = "unknown pair" /\ UNCHANGED restart
       ELSE IF restart
       THEN qres'.kind = OutOfSync /\ qres'.msg = "restart initialised" /\ UNCHANGED restart
       ELSE IF data_store[k].status # "active"
       THEN qres'.kind = OutOfSync /\ qres'.msg = "not active" /\ UNCHANGED restart
       ELSE IF now > last_heartbeat + qres'.window
       THEN qres'.kind = OutOfSync /\ qres'.msg = "stale" /\ UNCHANGED restart
       ELSE IF Crossed(k)
       THEN qres'.kind = OutOfSync /\ qres'.msg = "inconsistent" /\ restart'
       ELSE qres'.kind # OutOfSync /\ qres'.msg # "unknown pair" /\ UNCHANGED restart

\* C9: a query reports the first failing check in the order empty store,
\* unknown market, restart, status, heartbeat, crossed book; it answers only
\* if all six pass, and it changes nothing but restart (crossed book only)
C9_FirstFailingCheck ==
    [][(Idle /\ qres'.op # "none") =>
          /\ ReportsFirstFailingCheck
          /\ UNCHANGED <<config_vars, waiter, data_store, socket_handle, running, last_heartbeat,
                         channel_id_to_market, market_id_to_market, pc, idx,
                         connection_tries, connection_delay, now>>]_vars

\* C10: every query call returns a value or fails with OutOfSync or Error;
\* get_middle on a market that passes verify_status returns
\* (best bid + best ask) / 2 when both ladders are non-empty and ends in one
\* of the three outcomes when one is empty
C10_ValueOrTwoErrors ==
    /\ qres.op # "none" => qres.kind \in {"value", "None", OutOfSync, "OrderBookError"}
    /\ \A k \in DOMAIN data_store :
          (PassedVerify(k) /\ qres.op = "get_middle" /\ BothSides(k)) =>
              /\ qres.kind = "value"
              /\ qres.number = (HighestPrice(Bids(k)) + LowestPrice(Asks(k))) \div 2

\* the engine is in its connection loop after a restart block: no handle, no
\* restart request, every market as new
Reconnecting ==
    /\ pc = "connect"
    /\ socket_handle = None
    /\ ~restart
    /\ \A k \in DOMAIN data_store : data_store[k] = EmptyMarket

\* C4 as stated, in its weakest reading: a book that is crossed while the
\* engine receives does not stay crossed for ever without restart being set,
\* also when no caller issues a query (stop() and a dead engine thread aside)
C4_CrossedBookForcesRestart ==
    (Crossed(K1) /\ pc = "receive")
        ~> (restart \/ ~Crossed(K1) \/ ~running \/ pc = "crashed")

\* a query against K1 has found the book crossed while the engine receives
C4_CrossDetectedWhileReceiving ==
    /\ Queried(K1) /\ qres.msg = "inconsistent"
    /\ restart /\ running
    /\ pc = "receive"

\* C4 amended: the crossed book is found by a query that reaches the sixth
\* check of verify_status, which sets restart; the receiving engine then
\* leaves its loop, disconnects, clears the store and goes back to
\* connecting, unless stop() is called. Without a query nothing sets restart.
C4_DetectedCrossLeadsToReconnect ==
    C4_CrossDetectedWhileReceiving ~> (Reconnecting \/ ~running)

LastSequence(k) == data_store[k].last_sequence

\* the frame that skips a number sets restart
C5_GapStep ==
    (gapped' # gapped /\ gapped \subseteq gapped') => restart'

C6_FrameVerified(f, r, k) ==
    r.raised = NoError =>
        /\ r.restart <=> (LastSequence(k) # None /\ f.sequence # LastSequence(k) + 1)
        /\ r.data_store[k].last_sequence = f.sequence

\* every frame the receive loop may take next is verified as C6 says
C6_Verifies ==
    (adapter = "poloniex" /\ pc = "receive" /\ Idle /\ running /\ ~restart) =>
        \A f \in LitePoloniexFrames :
            (f.kind = "msg" /\ f.market_id \in DOMAIN market_id_to_market) =>
                C6_FrameVerified(f,
                    poloniex_receive(f, market_id_to_market, data_store, restart),
                    market_id_to_market[f.market_id])

\* a step that changes a stored number and leaves restart false adds one
C6_Consecutive ==
    \A k \in DOMAIN data_store \cap DOMAIN data_store' :
        (adapter = "poloniex" /\ ~restart'
            /\ LastSequence(k) # None
            /\ data_store'[k].last_sequence # LastSequence(k)) =>
        data_store'[k].last_sequence = LastSequence(k) + 1

C11_UnknownPairAlwaysError ==
    Queried(K2) => qres.kind = "OrderBookError" /\ qres.msg = "unknown pair"

\* C11 amended: K2 is never a key of data_store; a query for it fails with
\* Error (unknown pair) while data_store holds a market, whatever restart,
\* status and heartbeat are, and with OutOfSync (initialising) while
\* data_store is empty: before run() has filled it and between the restart
\* block and the refill. It never returns a result.
C11_UnknownPairErrorOnceFilled ==
    /\ K2 \notin DOMAIN data_store
    /\ Queried(K2) =>
          IF DOMAIN data_store = {}
          THEN qres.kind = OutOfSync /\ qres.msg = "initialising"
          ELSE qres.kind = "OrderBookError" /\ qres.msg = "unknown pair"

\* the unknown pair is reported while a restart is requested
C11_UnknownPairDuringRestart ==
    /\ Queried(K2) /\ qres.kind = "OrderBookError"
    /\ restart /\ pc = "receive"

ConfiguredKeys == {markets[i] : i \in 1..Len(markets)}

\* C12: whenever the engine is in its connection loop (at the first start and
\* after every restart) data_store holds exactly the configured keys, each
\* with empty ladders, no sequence number and status inactive, and restart
\* is false
C12_CycleStartsClean ==
    pc = "connect" =>
        /\ DOMAIN data_store = ConfiguredKeys
        /\ \A k \in DOMAIN data_store : data_store[k] = EmptyMarket
        /\ ~restart

\* the connection loop of a later cycle: the market has taken a sequence gap
\* on the connection before
C12_CycleAfterGap ==
    /\ pc = "connect" /\ socket_handle = None
    /\ K1 \in gapped

\* C13: from the restart block until the first frame of the new connection
\* is received the indirection table of the adapter is empty, for Bitfinex
\* (channel id -> market) and for Poloniex (market id -> market)
C13_TablesEmptyBeforeFirstFrame ==
    pc \in {"init_store", "connect", "subscribe"} =>
        /\ channel_id_to_market = EmptyTable
        /\ market_id_to_market = EmptyTable

AllActive ==
    \A k \in ConfiguredKeys : k \in DOMAIN data_store /\ data_store[k].status = "active"

\* C14: with a peer that keeps to the protocol on every connection and
\* without stop(), a restart request leads to a state where restart is false
\* and every configured market is active
C14_RestartLeadsToActive ==
    (restart /\ running) ~> (~restart /\ AllActive)

\* C15: once stop() has been called on a started engine, the engine thread
\* disconnects and ends, whichever phase it is in
C15_StopLeadsToEnd ==
    (~running /\ pc \notin {"idle", "crashed", "failed"}) ~> (pc = "done")

\* the engine is between two mutations of one frame
MidFrame == Len(done) > 0 /\ Len(pending) > 0

\* C16: no query returns a result computed from a state in which only a
\* proper prefix of the mutations of a frame has been applied
C16_QueriesSeeWholeFrames ==
    (qres.op # "none" /\ qres.kind = "value") => ~MidFrame

\* the step applies the first mutation in pending
Applies == pc = "apply" /\ Len(pending) > 0 /\ pending' = Tail(pending)
Addressed == Head(pending).market
IsRemove(m) == m.type \in {"remove_ask", "remove_bid"}
IsUpdate(m) == m.type \in {"update_ask", "update_bid"}

\* C18: applying the last mutation of a batch leaves the market it addresses
\* active, whether it is an update or a remove; applying a mutation that is
\* not the last changes no status
C18_LastOfBatchActivates ==
    [][Applies =>
          /\ (Len(pending) = 1 /\ (IsUpdate(Head(pending)) \/ IsRemove(Head(pending)))
                /\ Addressed \in DOMAIN data_store') =>
                data_store'[Addressed].status = "active"
          /\ Len(pending) > 1 =>
                \A k \in DOMAIN data_store : data_store'[k].status = data_store[k].status]_vars

LadderOf(store, m) ==
    store[m.market][IF m.type = "remove_ask" THEN "order_book_ask" ELSE "order_book_bid"]
OtherLadderOf(store, m) ==
    store[m.market][IF m.type = "remove_ask" THEN "order_book_bid" ELSE "order_book_ask"]
SameLadders(k) ==
    /\ data_store'[k].order_book_ask = data_store[k].order_book_ask
    /\ data_store'[k].order_book_bid = data_store[k].order_book_bid
LevelsOf(book) == {book[i] : i \in 1..Len(book)}

\* what applying the remove m to the present state must give
RemovedExactly(m) ==
    IF m.rate \notin PricesOf(LadderOf(data_store, m))
    THEN /\ \A k \in DOMAIN data_store : SameLadders(k)
         /\ restart' = (restart \/ ~soft_delete_fail)
    ELSE /\ Len(LadderOf(data_store', m)) = Len(LadderOf(data_store, m)) - 1
         /\ LevelsOf(LadderOf(data_store', m)) =
               {l \in LevelsOf(LadderOf(data_store, m)) : l[1] # m.rate}
         /\ OtherLadderOf(data_store', m) = OtherLadderOf(data_store, m)
         /\ \A k \in DOMAIN data_store \ {m.market} : SameLadders(k)
         /\ restart' = restart

\* C19: a remove for a price that is not in the addressed ladder changes no
\* ladder and sets restart exactly if soft_delete_fail is false; a remove for
\* a stored price deletes that level alone and leaves restart as it is
C19_RemoveHitsOrMisses ==
    [][(Applies /\ IsRemove(Head(pending)) /\ Addressed \in DOMAIN data_store) =>
          /\ DOMAIN data_store' = DOMAIN data_store
          /\ RemovedExactly(Head(pending))]_vars

\* the first mutation of a frame was a remove_ask on an empty ask ladder: it
\* has set restart, the rest of the frame is still to be applied
C19_MissSetRestart ==
    /\ pc = "apply" /\ Len(done) = 1 /\ done[1].type = "remove_ask"
    /\ Len(Asks(K1)) = 0
    /\ restart /\ ~soft_delete_fail

\* C17: whatever frame arrives, the engine thread stays in its receive loop
\* or leaves it for the restart test; no frame ends the thread
C17_NoFrameEndsEngine ==
    [][pc = "receive" => pc' \in {"receive", "restart_check"}]_vars

\* C20: the engine gives up exactly with the 2,000th failure of connect() in
\* a row: it has not given up with fewer, and once 2,000 are counted it has
\* given up and tries no more
C20_GivesUpAtMaxTries ==
    /\ pc = "failed" => connection_tries = MaxTries
    /\ connection_tries >= MaxTries => pc = "failed"

\* the seconds the connection loop is to sleep before attempt n of a phase
BackoffSchedule(n) == IF n <= 3 THEN 0 ELSE IF n <= 7 THEN n - 3 ELSE 5

\* C21 as stated: before attempt n of a connection phase (n - 1 failures
\* counted) the engine sleeps 0 seconds for n = 1..3, n - 3 seconds for
\* n = 4..7 and 5 seconds from n = 8 on
C21_SleepsBySchedule ==
    (pc = "connect" /\ socket_handle = None) =>
        connection_delay = BackoffSchedule(connection_tries + 1)

\* C21: the schedule is counted in failures, that is one attempt later: the
\* engine sleeps 0 seconds before attempts 1..4, n - 4 seconds before
\* attempts 5..8 and 5 seconds before attempt 9 and every later one; each
\* connection phase begins with the counter and the delay at zero
C21_SleepsByFailures ==
    /\ (pc = "connect" /\ socket_handle = None) =>
           connection_delay = BackoffSchedule(connection_tries)
    /\ pc = "init_store" => connection_tries = 0 /\ connection_delay = 0

\* the engine is about to sleep 5 seconds before its ninth attempt
C21_NinthAttempt ==
    /\ pc = "connect" /\ socket_handle = None
    /\ connection_tries = 8
    /\ connection_delay = 5

\* C22: complete_initialisation() returns only at a moment when data_store
\* holds every configured market and each of them is active
C22_ReturnsWhenAllActive ==
    [][(waiter = "loop" /\ waiter' = "returned") => AllActive]_vars

\* the ladders of a batch that starts on empty ladders, after its first n
\* mutations
RECURSIVE Replay(_, _)
Replay(ops, n) ==
    IF n = 0
    THEN [data_store |-> [k \in {K1, K2} |-> [EmptyMarket EXCEPT !.status = "initialising"]],
          restart |-> FALSE, raised |-> NoError]
    ELSE update(Replay(ops, n - 1), ops[n], FALSE, soft_delete_fail)
SideOf(m) ==
    IF m.type \in {"update_ask", "remove_ask"} THEN "order_book_ask" ELSE "order_book_bid"
LadderAfter(n, m) == Replay(done, n).data_store[m.market][SideOf(m)]
SameLevel(m1, m2) ==
    /\ m1 # Heartbeat /\ m2 # Heartbeat
    /\ m1.market = m2.market /\ SideOf(m1) = SideOf(m2) /\ m1.rate = m2.rate
ReplayIsState ==
    \A k \in {K1, K2} :
        /\ Replay(done, Len(done)).data_store[k].order_book_ask = Asks(k)
        /\ Replay(done, Len(done)).data_store[k].order_book_bid = Bids(k)

\* C23: when an update at price p with size s is followed by an update on
\* the same ladder at p with size s', the ladder holds p with size s' and has
\* as many levels as after the first update
C23_UpdateTwice ==
    /\ ReplayIsState
    /\ \A n \in 2..Len(done) :
          (IsUpdate(done[n - 1]) /\ IsUpdate(done[n]) /\ SameLevel(done[n - 1], done[n])) =>
              /\ done[n].rate \in PricesOf(LadderAfter(n, done[n]))
              /\ SizeAt(LadderAfter(n, done[n]), done[n].rate) = done[n].amount
              /\ Len(LadderAfter(n, done[n])) = Len(LadderAfter(n - 1, done[n]))

\* the ask at 2 was set to size 1 and then to size 2, next to an ask at 4
C23_AskResized ==
    /\ done = <<Mutation("update_ask", K1, 4, 1), Mutation("update_ask", K1, 2, 1),
                Mutation("update_ask", K1, 2, 2)>>
    /\ Asks(K1) = <<<<2, 2>>, <<4, 1>>>>

\* C24 as stated: an update at price p followed by a remove on the same
\* ladder at p leaves the ladder with as many levels as before the update
C24_UpdateRemoveKeepsCount ==
    \A n \in 2..Len(done) :
        (IsUpdate(done[n - 1]) /\ IsRemove(done[n]) /\ SameLevel(done[n - 1], done[n])) =>
            Len(LadderAfter(n, done[n])) = Len(LadderAfter(n - 2, done[n]))

\* C24: an update at price p followed by a remove on the same ladder at p
\* leaves the ladder without p: with as many levels as before the update
\* when p was not stored then, and with one level fewer when it was
C24_UpdateRemoveDropsLevel ==
    /\ ReplayIsState
    /\ \A n \in 2..Len(done) :
          (IsUpdate(done[n - 1]) /\ IsRemove(done[n]) /\ SameLevel(done[n - 1], done[n])) =>
              /\ done[n].rate \notin PricesOf(LadderAfter(n, done[n]))
              /\ Len(LadderAfter(n, done[n])) =
                    IF done[n].rate \in PricesOf(LadderAfter(n - 2, done[n]))
                    THEN Len(LadderAfter(n - 2, done[n])) - 1
                    ELSE Len(LadderAfter(n - 2, done[n]))

\* the bid at 2 was stored, updated and removed: no bid is left
C24_StoredLevelGone ==
    /\ done = <<Mutation("update_bid", K1, 2, 1), Mutation("update_bid", K1, 2, 2),
                Mutation("remove_bid", K1, 2, 0)>>
    /\ Bids(K1) = <<>>
    /\ ~restart

\* C25: every entry stored in an ask or bid ladder has a size above zero
C25_StoredSizesPositive ==
    \A k \in DOMAIN data_store :
        /\ \A i \in 1..Len(Asks(k)) : Asks(k)[i][2] > 0
        /\ \A i \in 1..Len(Bids(k)) : Bids(k)[i][2] > 0

\* what a triple of the Bitfinex wire stands for
TripleMeans(t, market) ==
    IF t[2] = 0
    THEN IF t[3] = 1 THEN Mutation("remove_bid", market, t[1], 0)
         ELSE IF t[3] = -1 THEN Mutation("remove_ask", market, t[1], 0)
         ELSE [type |-> "OrderBookError"]
    ELSE IF t[3] > 0 THEN Mutation("update_bid", market, t[1], t[3])
         ELSE Mutation("update_ask", market, t[1], 0 - t[3])
TriplesOf(frame) == IF frame.kind = "snapshot" THEN frame.items ELSE <<frame.item>>
JustDecoded == pc = "apply" /\ done = <<>>

\* C26: the Bitfinex adapter decodes a data frame into one mutation per
\* triple, in frame order: count 0 with amount 1 is remove_bid, with amount -1
\* remove_ask, with another amount a protocol error (the frame sets restart and
\* yields nothing); count # 0 with amount > 0 is update_bid(p, amount), with
\* amount < 0 update_ask(p, |amount|); and subscribed(17, ETHBTC),
\* [17,[[0.05,3,1.0],[0.06,2,-2.0],[0.04,1,0.5]]], [17,0.05,0,1] leave the asks
\* [(0.06,2.0)], the bids [(0.04,0.5)] and the status active
C26_BitfinexDecoding ==
    adapter = "bitfinex" =>
        /\ (JustDecoded /\ wire.kind \in {"snapshot", "delta"}) =>
              pending = [i \in 1..Len(TriplesOf(wire)) |-> TripleMeans(TriplesOf(wire)[i], K1)]
        /\ (pc = "receive" /\ wire.kind \in {"snapshot", "delta"}
               /\ \E i \in 1..Len(TriplesOf(wire)) :
                     TripleMeans(TriplesOf(wire)[i], K1).type = "OrderBookError") =>
              restart /\ pending = <<>>
        /\ (pc = "receive" /\ stream = Len(BitfinexScript)) =>
              /\ Asks(K1) = <<<<6, 4>>>>
              /\ Bids(K1) = <<<<4, 1>>>>
              /\ data_store[K1].status = "active"

\* the three frames are through and have left one ask and one bid
C26_SessionPlayed ==
    /\ adapter = "bitfinex"
    /\ pc = "receive" /\ stream = Len(BitfinexScript)
    /\ wire = BitfinexScript[3]
    /\ Asks(K1) = <<<<6, 4>>>> /\ Bids(K1) = <<<<4, 1>>>>

\* what an item of a Poloniex frame stands for
ItemMeans(item) ==
    IF item.tag = "i"
    THEN [i \in 1..Len(item.asks) |->
             Mutation("update_ask", K1, item.asks[i][1].str, item.asks[i][2].str)]
         \o [i \in 1..Len(item.bids) |->
             Mutation("update_bid", K1, item.bids[i][1].str, item.bids[i][2].str)]
    ELSE <<Mutation(IF item.amount.str = 0
                    THEN (IF item.side = 0 THEN "remove_ask" ELSE "remove_bid")
                    ELSE (IF item.side = 0 THEN "update_ask" ELSE "update_bid"),
                    K1, item.rate.str, item.amount.str)>>
RECURSIVE ItemsMean(_)
ItemsMean(items) ==
    IF Len(items) = 0 THEN <<>> ELSE ItemMeans(Head(items)) \o ItemsMean(Tail(items))

\* C27: the Poloniex adapter decodes an 'i' item into one update_ask per
\* entry of orderBook[0] and then one update_bid per entry of orderBook[1],
\* for the market named QUOTE_BASE, and an 'o' item [side, price, size] into
\* a remove (size 0.0) or an update (otherwise) of the asks for side 0 and of
\* the bids for side 1; and [148,100,[["i",asks {0.06:2.0}, bids {0.04:0.5}]]],
\* [148,101,[["o",1,"0.04","1.5"]]], [148,102,[["o",0,"0.06","0.0"]]] leave the
\* asks empty, the bids [(0.04,1.5)], last_sequence at the third number and
\* restart false
C27_PoloniexDecoding ==
    adapter = "poloniex" =>
        /\ (JustDecoded /\ wire.kind = "msg") => pending = ItemsMean(wire.updates)
        /\ (pc = "receive" /\ stream = Len(PoloniexScript)) =>
              /\ Asks(K1) = <<>>
              /\ Bids(K1) = <<<<4, 3>>>>
              /\ data_store[K1].last_sequence = 3
              /\ ~restart

\* the three frames are through and have left one bid
C27_SessionPlayed ==
    /\ adapter = "poloniex"
    /\ pc = "receive" /\ stream = Len(PoloniexScript)
    /\ wire = PoloniexScript[3]
    /\ Asks(K1) = <<>> /\ Bids(K1) = <<<<4, 3>>>>

\* C28: every call of update(), whatever the mutation and its outcome, sets
\* last_heartbeat to the current time; no other step changes last_heartbeat,
\* and it never decreases
C28_HeartbeatFollowsMutations ==
    [][/\ Applies => last_heartbeat' = now
       /\ ~Applies => last_heartbeat' = last_heartbeat
       /\ last_heartbeat' >= last_heartbeat]_vars

\* a mutation applied after the clock had advanced has refreshed
\* last_heartbeat, and the engine has gone on to a restart since
C28_RefreshedBeforeRestart ==
    /\ last_heartbeat = MaxTime /\ now = MaxTime
    /\ pc = "connect" /\ socket_handle = None
    /\ K1 \in DOMAIN data_store
    /\ data_store[K1].status = "inactive"

OtherSideOf(m) ==
    IF m.type \in {"update_ask", "remove_ask"} THEN "order_book_bid" ELSE "order_book_ask"

\* C29: applying one mutation leaves alone every other market, the ladder of
\* the other side of the market it addresses and that market's last_sequence;
\* applying a heartbeat leaves the whole of data_store alone, also as the
\* last mutation of its batch
C29_MutationTouchesOneLadder ==
    [][Applies =>
          /\ DOMAIN data_store' = DOMAIN data_store
          /\ IF Head(pending) = Heartbeat
             THEN data_store' = data_store
             ELSE /\ \A k \in DOMAIN data_store \ {Addressed} : data_store'[k] = data_store[k]
                  /\ data_store'[Addressed][OtherSideOf(Head(pending))] =
                        data_store[Addressed][OtherSideOf(Head(pending))]
                  /\ data_store'[Addressed].last_sequence = data_store[Addressed].last_sequence]_vars

\* a bid and then an ask of the first market and a heartbeat are applied:
\* both levels are there, the second market is as it was
C29_BothSidesKept ==
    /\ done = <<Mutation("update_bid", K1, 2, 1), Mutation("update_ask", K1, 4, 2), Heartbeat>>
    /\ Bids(K1) = <<<<2, 1>>>> /\ Asks(K1) = <<<<4, 2>>>>
    /\ data_store[K1].status = "initialising"
    /\ data_store[K2] = [EmptyMarket EXCEPT !.status = "initialising"]

StatusOf(store, k) == IF k \in DOMAIN store THEN store[k].status ELSE "absent"

\* C30: the status of a market changes only from inactive to initialising,
\* in the subscription loop, and from initialising to active, with the
\* last mutation of a batch, an update addressed to it; it leaves active
\* only when data_store is rebuilt; and the receive loop runs only with every
\* configured market initialising or active
C30_StatusLifeCycle ==
    /\ [](pc \in {"receive", "apply"} =>
             \A k \in ConfiguredKeys : StatusOf(data_store, k) \in {"initialising", "active"})
    /\ [][\A k \in ConfiguredKeys :
             StatusOf(data_store', k) # StatusOf(data_store, k) =>
                \/ pc = "restart_check" /\ StatusOf(data_store', k) = "absent"
                \/ pc = "init_store" /\ StatusOf(data_store, k) = "absent"
                      /\ StatusOf(data_store', k) = "inactive"
                \/ pc = "subscribe" /\ StatusOf(data_store, k) = "inactive"
                      /\ StatusOf(data_store', k) = "initialising"
                \/ /\ Applies /\ Len(pending) = 1
                   /\ IsUpdate(Head(pending)) /\ Addressed = k
                   /\ StatusOf(data_store, k) = "initialising"
                   /\ StatusOf(data_store', k) = "active"]_vars

\* the first market is active, the second still initialising
C30_OneOfTwoActive ==
    /\ pc = "receive"
    /\ StatusOf(data_store, K1) = "active"
    /\ StatusOf(data_store, K2) = "initialising"

\* ------------------------------------------------------------ disconnect()
\* the engine thread calls self.disconnect(): in the restart block, or after
\* the outer loop has ended
Disconnects ==
    \/ pc = "restart_check" /\ restart /\ running /\ pc' = "loop_test"
    \/ pc = "final_disconnect" /\ pc' # pc

\* C31: the engine calls disconnect() only while socket_handle holds an open
\* handle, and at most once per established connection (the call is followed
\* by the reset of socket_handle or by the end of the thread), in every
\* interleaving of stop() with the engine thread; the call never ends the
\* engine in a failure
C31_DisconnectOnOpenHandle ==
    [][Disconnects =>
          /\ socket_handle # None
          /\ socket_handle' = None \/ pc' = "done"
          /\ pc' # "crashed"]_vars

\* the part of C31 that the code keeps: a disconnect() on an open handle is
\* the last one on that handle
C31_OpenHandleClosedOnce ==
    [][(Disconnects /\ socket_handle # None) =>
          (socket_handle' = None \/ pc' = "done")]_vars

\* --------------------------------------- queries while data_store is rebuilt
\* C32: a query with valid arguments for a configured market never fails with
\* Error (unknown pair), whatever the engine thread is doing: also while
\* data_store is empty after a restart and while the configured markets are
\* inserted into it one by one
C32_ConfiguredNeverUnknown ==
    (qres.op # "none" /\ qres.key \in ConfiguredKeys) => qres.kind # "OrderBookError"

\* what the code gives instead: Error (unknown pair) for a configured market
\* only while the engine thread is inside the loop that fills data_store and
\* has not inserted that market yet
C32_UnknownOnlyWhileFilling ==
    (qres.op # "none" /\ qres.key \in ConfiguredKeys /\ qres.kind = "OrderBookError") =>
        /\ qres.msg = "unknown pair"
        /\ pc = "init_store"
        /\ DOMAIN data_store # {}
        /\ qres.key \notin DOMAIN data_store

====
